---- MODULE Spec2Model ----
(***************************************************************************)
(* Model of the LiDAR binary streaming client (LiDARWebSocketClient):     *)
(* the three wire messages (Standard "LIDR", Chunk "CHUN", EndOfFrame     *)
(* "EOFR"), the per-(stream, frameNumber) chunk reassembly buffers and    *)
(* the decoding of a complete message into a frame.                       *)
(*                                                                         *)
(* Messages are sequences of bytes (0..255); header fields are read and   *)
(* written as 4-byte little-endian words.  A float32 is represented by    *)
(* its 32-bit pattern.  TLC integers are 32-bit signed, so every word of  *)
(* the model keeps its most significant byte below 128.                   *)
(***************************************************************************)
EXTENDS Integers, Sequences, FiniteSets, TLC

VARIABLES
    chunkBuffers,   \* stream -> (frameNumber -> ChunkBuffer), the keys present only
    frameCounters,  \* stream -> frames decoded
    dataReceived,   \* stream -> payload bytes decoded
    socks,          \* stream -> sequence of readyState, one per WebSocket ever created
    connections,    \* stream -> index into socks[stream] of the stored socket, 0 = no entry
    tx,             \* stream -> (frameNumber -> chunked transmission in flight)
    sends,          \* number of frames and stray messages put on the wire so far
    dropped,        \* the keys <<stream, frameNumber>> of frames dropped for missing chunks
    last,           \* what the most recent onmessage handler did
    eventLoop,      \* the await continuations (microtasks) of the handler that is running
    history,        \* per socket the lifecycle callbacks invoked; the socket opened last
    encoder,        \* what the most recent call of the frame encoder returned
    app,            \* the App of the fragment-shader experiment and its document
    zone            \* the Zone of the 3-D world

vars == <<chunkBuffers, frameCounters, dataReceived, socks, connections,
          tx, sends, dropped, last, eventLoop, history, encoder, app, zone>>

\* The state of the components other than the WebSocket client.
otherVars == <<encoder, app, zone>>

(***************************************************************************)
(* Bounds of the model                                                     *)
(***************************************************************************)
MaxMessageSize == 40    \* encoder threshold (bytes), scaled down from 512 KiB
ChunkSize == 8          \* encoder chunk size (bytes), scaled down from 256 KiB
MaxFrameNumber == 1     \* frame numbers 0..MaxFrameNumber
MaxSends == 2           \* frames and stray messages sent in one behaviour
MaxAsyncMessages == 3   \* message events in one behaviour of SpecAsync
MaxArbitraryMessages == 3 \* messages in one behaviour of SpecArbitrary
MaxSockets == 2         \* WebSockets created per stream in one behaviour of SpecConnections
MaxZoneLength == 6      \* vertices a Zone holds in one behaviour of SpecZone
MaxPayloadLength == 6   \* values in a payload handed to the encoder
MaxAnimationFrames == 6 \* requestAnimationFrame calls in one behaviour of SpecApp

(***************************************************************************)
(* Protocol constants                                                      *)
(***************************************************************************)
HEADER_SIZE == 32
FLOAT32_BYTES == 4
MAGIC_BYTES_LIDR == <<76, 73, 68, 82>>
MAGIC_BYTES_CHUN == <<67, 72, 85, 78>>
MAGIC_BYTES_EOFR == <<69, 79, 70, 82>>

STREAM_TYPES ==
    [id \in 0..4 |-> CASE id = 0 -> "range2d"
                       [] id = 1 -> "reflectivity2d"
                       [] id = 2 -> "points3d"
                       [] id = 3 -> "reflectivity3d"
                       [] id = 4 -> "combined2d"]

STREAM_TYPE_IDS ==
    [s \in {"range2d", "reflectivity2d", "points3d", "reflectivity3d", "combined2d"} |->
        CHOOSE id \in 0..4 : STREAM_TYPES[id] = s]

\* The streams of the model: two of the five the constructor initialises.
Streams == {"range2d", "points3d"}
FrameNumbers == 0..MaxFrameNumber

(***************************************************************************)
(* Bytes                                                                   *)
(***************************************************************************)
Min(a, b) == IF a < b THEN a ELSE b
Max(a, b) == IF a > b THEN a ELSE b

\* Uint8Array.prototype.slice(begin, end): end is clamped to the length.
Slice(a, begin, end) == SubSeq(a, begin + 1, Min(end, Len(a)))

\* DataView.getUint32(off, true) and getFloat32(off, true) (the bit pattern).
GetUint32(m, off) ==
    m[off + 1] + 256 * m[off + 2] + 65536 * m[off + 3] + 16777216 * m[off + 4]

Zeros(n) == [i \in 1..n |-> 0]

\* new Uint8Array(n) followed by set(src, at): src written over zeros.
SetBytes(dst, src, at) ==
    [i \in 1..Len(dst) |-> IF i > at /\ i <= at + Len(src) THEN src[i - at] ELSE dst[i]]

arraysEqual(a, b) ==
    /\ Len(a) = Len(b)
    /\ \A i \in 1..Len(a) : a[i] = b[i]

\* new Float32Array(buffer): one value (bit pattern) per 4 bytes, little-endian.
Float32Array(bytes) ==
    [i \in 1..(Len(bytes) \div FLOAT32_BYTES) |-> GetUint32(bytes, FLOAT32_BYTES * (i - 1))]

(***************************************************************************)
(* Map<number, Uint8Array>: a JavaScript Map keeps its keys in insertion   *)
(* order, so a map is a sequence of [idx, data] entries without repeated   *)
(* keys; set() of a key already present keeps the key's position.          *)
(***************************************************************************)
MapHas(map, k) == \E i \in 1..Len(map) : map[i].idx = k
MapGet(map, k) == (CHOOSE e \in {map[i] : i \in 1..Len(map)} : e.idx = k).data
\* Faulty variant of MapSet: an entry is added even when the key is present.
MapSetAppending(map, k, v) == Append(map, [idx |-> k, data |-> v])

MapSet(map, k, v) ==
    IF MapHas(map, k)
    THEN [i \in 1..Len(map) |-> IF map[i].idx = k THEN [idx |-> k, data |-> v] ELSE map[i]]
    ELSE Append(map, [idx |-> k, data |-> v])
MapKeys(map) == [i \in 1..Len(map) |-> map[i].idx]
MapSize(map) == Len(map)

(***************************************************************************)
(* parseBinaryMessage: a complete message to a LiDARFrame, or a throw.     *)
(***************************************************************************)
NoFrame == [streamType |-> "none"]
NoError == "none"
ErrTooShort == "Message too short for header"
ErrInvalidMagic == "Invalid magic bytes"
ErrUnknownStreamType == "Unknown stream type"
ErrSizeMismatch == "Message size mismatch"
ErrCallback == "consumer callback threw"

Thrown(err) == [thrown |-> TRUE, error |-> err, frame |-> NoFrame]

ExpectedSize(shape0, shape1) == HEADER_SIZE + shape0 * Max(shape1, 1) * FLOAT32_BYTES

\* Faulty variant of SizeMatches: the length is never compared.
SizeAlwaysMatches(message, shape0, shape1) == TRUE

\* message.length !== expectedSize throws.
SizeMatches(message, shape0, shape1) == Len(message) = ExpectedSize(shape0, shape1)

\* Faulty variant of DataBuffer: the slice starts one value too early.
DataBufferFromLastHeaderWord(message) ==
    Slice(message, HEADER_SIZE - FLOAT32_BYTES, Len(message))

\* message.buffer.slice(byteOffset + 32, byteOffset + length)
DataBuffer(message) == Slice(message, HEADER_SIZE, Len(message))

\* Faulty variant of FrameShape: the sentinel shape1 = 0 is not recognised.
FrameShapeTwoDimensional(shape0, shape1) == <<shape0, shape1>>

\* shape1 > 0 ? [shape0, shape1] : [shape0]
FrameShape(shape0, shape1) == IF shape1 > 0 THEN <<shape0, shape1>> ELSE <<shape0>>

parseBinaryMessage(message) ==
    IF Len(message) < HEADER_SIZE THEN Thrown(ErrTooShort)
    ELSE
    LET magic == Slice(message, 0, 4)
        streamTypeId == GetUint32(message, 4)
        frameNumber == GetUint32(message, 8)
        shape0 == GetUint32(message, 12)
        shape1 == GetUint32(message, 16)
        minVal == GetUint32(message, 20)
        maxVal == GetUint32(message, 24)
    IN  IF ~arraysEqual(magic, MAGIC_BYTES_LIDR) THEN Thrown(ErrInvalidMagic)
        ELSE IF streamTypeId \notin DOMAIN STREAM_TYPES THEN Thrown(ErrUnknownStreamType)
        ELSE IF ~SizeMatches(message, shape0, shape1) THEN Thrown(ErrSizeMismatch)
        ELSE
        LET dataArray == Float32Array(DataBuffer(message))
        IN  [thrown |-> FALSE, error |-> NoError,
             frame |-> [streamType |-> STREAM_TYPES[streamTypeId],
                        frameNumber |-> frameNumber,
                        shape |-> FrameShape(shape0, shape1),
                        minVal |-> minVal,
                        maxVal |-> maxVal,
                        data |-> dataArray,
                        dataSizeBytes |-> Len(dataArray) * FLOAT32_BYTES]]

(***************************************************************************)
(* The handlers.  A handler takes and returns the part of the client's     *)
(* state one stream's onmessage can touch:                                 *)
(*   bufs      chunkBuffers.get(streamType), frameNumber -> ChunkBuffer    *)
(*   frames    frameCounters.get(streamType)                               *)
(*   bytes     dataReceived.get(streamType)                                *)
(* and what it did: the frame handed to the stream's consumer callback,    *)
(* the complete message given to parseBinaryMessage, whether it threw.     *)
(***************************************************************************)
EmptyMap == [f \in {} |-> 0]
NoCallback == "none"

\* The switch of lines 335-351: the callback invoked for a frame received on
\* the connection of streamType.
CallbackFor(streamType) ==
    CASE streamType = "range2d" -> "onRange2D"
      [] streamType = "reflectivity2d" -> "onReflectivity2D"
      [] streamType = "points3d" -> "onPoints3D"
      [] streamType = "reflectivity3d" -> "onReflectivity3D"
      [] streamType = "combined2d" -> "onCombined2D"
      [] OTHER -> NoCallback

Outcome(bufs, frames, bytes) ==
    [bufs |-> bufs, frames |-> frames, bytes |-> bytes,
     delivered |-> NoFrame, callback |-> NoCallback,
     parsed |-> <<>>, thrown |-> FALSE, error |-> NoError]

\* Faulty variant of CountAndDeliver: the frame is counted before it is validated.
CountBeforeValidating(streamType, message, st, cbThrows, parsedData) ==
    IF parsedData.thrown
    THEN [st EXCEPT !.frames = st.frames + 1,
                    !.parsed = message, !.thrown = TRUE, !.error = parsedData.error]
    ELSE [st EXCEPT !.frames = st.frames + 1,
                    !.bytes = st.bytes + parsedData.frame.dataSizeBytes,
                    !.parsed = message,
                    !.delivered = parsedData.frame,
                    !.callback = CallbackFor(streamType),
                    !.thrown = cbThrows,
                    !.error = IF cbThrows THEN ErrCallback ELSE NoError]

\* Lines 318-351: count the frame, then hand it to the stream's consumer callback.
\* cbThrows: whether the consumer callback of the stream throws when invoked.
CountAndDeliver(streamType, message, st, cbThrows, parsedData) ==
    IF parsedData.thrown
    THEN [st EXCEPT !.parsed = message, !.thrown = TRUE, !.error = parsedData.error]
    ELSE [st EXCEPT !.frames = st.frames + 1,
                    !.bytes = st.bytes + parsedData.frame.dataSizeBytes,
                    !.parsed = message,
                    !.delivered = parsedData.frame,
                    !.callback = CallbackFor(streamType),
                    !.thrown = cbThrows,
                    !.error = IF cbThrows THEN ErrCallback ELSE NoError]

handleRegularMessage(streamType, message, st, cbThrows) ==
    CountAndDeliver(streamType, message, st, cbThrows, parseBinaryMessage(message))

\* Faulty variant of handleChunkMessage: one buffer per stream, a chunk of a
\* new frame number replaces the buffer of any other frame number.
handleChunkMessageSingleBuffer(streamType, message, st) ==
    LET streamTypeId == GetUint32(message, 4)
        frameNumber == GetUint32(message, 8)
        chunkIdx == GetUint32(message, 12)
        totalChunks == GetUint32(message, 16)
        chunkSize == GetUint32(message, 28)
        chunkData == Slice(message, HEADER_SIZE, HEADER_SIZE + chunkSize)
        streamChunkBuffers ==
            IF frameNumber \in DOMAIN st.bufs
            THEN [f \in {frameNumber} |-> st.bufs[f]]
            ELSE (frameNumber :> [chunks |-> <<>>,
                                  totalChunks |-> totalChunks,
                                  streamTypeId |-> streamTypeId])
    IN  [st EXCEPT !.bufs =
            [streamChunkBuffers EXCEPT ![frameNumber].chunks = MapSet(@, chunkIdx, chunkData)]]

\* Faulty variant of handleChunkMessage: the bytes of a chunk are added to
\* the data received.
handleChunkMessageCountingBytes(streamType, message, st) ==
    LET streamTypeId == GetUint32(message, 4)
        frameNumber == GetUint32(message, 8)
        chunkIdx == GetUint32(message, 12)
        totalChunks == GetUint32(message, 16)
        chunkSize == GetUint32(message, 28)
        chunkData == Slice(message, HEADER_SIZE, HEADER_SIZE + chunkSize)
        streamChunkBuffers ==
            IF frameNumber \in DOMAIN st.bufs THEN st.bufs
            ELSE st.bufs @@ (frameNumber :> [chunks |-> <<>>,
                                             totalChunks |-> totalChunks,
                                             streamTypeId |-> streamTypeId])
    IN  [st EXCEPT !.bytes = st.bytes + Len(chunkData),
                   !.bufs =
            [streamChunkBuffers EXCEPT ![frameNumber].chunks = MapSet(@, chunkIdx, chunkData)]]

handleChunkMessage(streamType, message, st) ==
    LET streamTypeId == GetUint32(message, 4)
        frameNumber == GetUint32(message, 8)
        chunkIdx == GetUint32(message, 12)
        totalChunks == GetUint32(message, 16)
        chunkSize == GetUint32(message, 28)
        chunkData == Slice(message, HEADER_SIZE, HEADER_SIZE + chunkSize)
        streamChunkBuffers ==
            IF frameNumber \in DOMAIN st.bufs THEN st.bufs
            ELSE st.bufs @@ (frameNumber :> [chunks |-> <<>>,
                                             totalChunks |-> totalChunks,
                                             streamTypeId |-> streamTypeId])
    IN  [st EXCEPT !.bufs =
            [streamChunkBuffers EXCEPT ![frameNumber].chunks = MapSet(@, chunkIdx, chunkData)]]

\* Faulty variant of SortedChunkIndices: the keys in arrival order, unsorted.
ArrivalOrderIndices(chunks) == MapKeys(chunks)

\* Array.from(chunks.keys()).sort((a, b) => a - b)
SortedChunkIndices(chunks) == SortSeq(MapKeys(chunks), LAMBDA a, b : a < b)

RECURSIVE ConcatChunks(_, _)
ConcatChunks(chunks, indices) ==
    IF indices = <<>> THEN <<>>
    ELSE MapGet(chunks, Head(indices)) \o ConcatChunks(chunks, Tail(indices))

DeleteKey(bufs, frameNumber) == [f \in DOMAIN bufs \ {frameNumber} |-> bufs[f]]

\* Faulty variant of HasAllChunks: a buffer with too few chunks passes.
HasAtMostAllChunks(bufs, frameNumber, totalChunks) ==
    /\ frameNumber \in DOMAIN bufs
    /\ MapSize(bufs[frameNumber].chunks) <= totalChunks

\* The test of line 276: a buffer exists and holds totalChunks entries.
HasAllChunks(bufs, frameNumber, totalChunks) ==
    /\ frameNumber \in DOMAIN bufs
    /\ MapSize(bufs[frameNumber].chunks) = totalChunks

\* Lines 299-303: the buffer is deleted only when handleRegularMessage returns.
ProcessReconstructed(frameNumber, r) ==
    IF r.thrown THEN r ELSE [r EXCEPT !.bufs = DeleteKey(r.bufs, frameNumber)]

\* Lines 294-297: original header and reconstructed data over a zeroed array.
CompleteMessage(originalHeader, reconstructedData) ==
    SetBytes(SetBytes(Zeros(HEADER_SIZE + Len(reconstructedData)), originalHeader, 0),
             reconstructedData, HEADER_SIZE)

ReconstructedData(chunks) == ConcatChunks(chunks, SortedChunkIndices(chunks))

\* Faulty variant of handleEndOfFrame: missing chunks reset every buffer of
\* the stream.
handleEndOfFrameResetStream(streamType, message, st, cbThrows) ==
    LET frameNumber == GetUint32(message, 8)
        totalChunks == GetUint32(message, 16)
        originalHeader == Slice(message, HEADER_SIZE, 2 * HEADER_SIZE)
    IN  IF HasAllChunks(st.bufs, frameNumber, totalChunks)
        THEN ProcessReconstructed(frameNumber,
                handleRegularMessage(streamType,
                    CompleteMessage(originalHeader,
                                    ReconstructedData(st.bufs[frameNumber].chunks)),
                    st, cbThrows))
        ELSE [st EXCEPT !.bufs = EmptyMap]

handleEndOfFrame(streamType, message, st, cbThrows) ==
    LET frameNumber == GetUint32(message, 8)
        totalChunks == GetUint32(message, 16)
        originalHeader == Slice(message, HEADER_SIZE, 2 * HEADER_SIZE)
    IN  IF HasAllChunks(st.bufs, frameNumber, totalChunks)
        THEN ProcessReconstructed(frameNumber,
                handleRegularMessage(streamType,
                    CompleteMessage(originalHeader,
                                    ReconstructedData(st.bufs[frameNumber].chunks)),
                    st, cbThrows))
        ELSE st

\* Faulty variant of handleBinaryMessage: a message of unknown magic is taken
\* for a chunk.
handleBinaryMessageDefaultChunk(streamType, message, st, cbThrows) ==
    IF Len(message) < HEADER_SIZE
    THEN [st EXCEPT !.thrown = TRUE, !.error = ErrTooShort]
    ELSE LET magic == Slice(message, 0, 4)
         IN  IF arraysEqual(magic, MAGIC_BYTES_EOFR)
                 THEN handleEndOfFrame(streamType, message, st, cbThrows)
             ELSE IF arraysEqual(magic, MAGIC_BYTES_LIDR)
                 THEN handleRegularMessage(streamType, message, st, cbThrows)
             ELSE handleChunkMessage(streamType, message, st)

handleBinaryMessage(streamType, message, st, cbThrows) ==
    IF Len(message) < HEADER_SIZE
    THEN [st EXCEPT !.thrown = TRUE, !.error = ErrTooShort]
    ELSE LET magic == Slice(message, 0, 4)
         IN  IF arraysEqual(magic, MAGIC_BYTES_CHUN)
                 THEN handleChunkMessage(streamType, message, st)
             ELSE IF arraysEqual(magic, MAGIC_BYTES_EOFR)
                 THEN handleEndOfFrame(streamType, message, st, cbThrows)
             ELSE IF arraysEqual(magic, MAGIC_BYTES_LIDR)
                 THEN handleRegularMessage(streamType, message, st, cbThrows)
             ELSE st

\* The catch of lines 215-218: a throw becomes one onError(streamType, error) call.
OnErrorCalls(r) == IF r.thrown THEN <<r.error>> ELSE <<>>

(***************************************************************************)
(* The handlers as the asynchronous functions they are.  A call of an      *)
(* async function runs synchronously up to its first await; what follows   *)
(* an await is a continuation, run as a microtask once the awaited promise *)
(* has settled.  The awaits are those of lines 127, 204, 207, 210 and 300; *)
(* every awaited promise is that of a handler that ran to its end          *)
(* synchronously.  A continuation is                                       *)
(*   "cleanup"  handleEndOfFrame after line 300: delete the buffer         *)
(*              (303) when handleRegularMessage fulfilled, rethrow if not  *)
(*   "catch"    handleBinaryMessage after 204/207/210: onError (215-218)   *)
(*              when the awaited handler rejected                          *)
(*   "return"   ws.onmessage after line 127: nothing left to do            *)
(***************************************************************************)
Continuation(kind, frameNumber, r) ==
    [kind |-> kind, frameNumber |-> frameNumber, rejected |-> r.thrown, error |-> r.error]

\* The state after the synchronous part: a rejection is not reported yet.
Unreported(r) == [r EXCEPT !.thrown = FALSE, !.error = NoError]

Started(r, continuations) == [st |-> r, continuations |-> continuations]

StartRegularMessage(streamType, message, st, cbThrows, r) ==
    Started(Unreported(r), <<Continuation("catch", 0, r), Continuation("return", 0, r)>>)

StartChunkMessage(streamType, message, st, r) ==
    Started(r, <<Continuation("catch", 0, r), Continuation("return", 0, r)>>)

StartEndOfFrame(streamType, message, st, cbThrows) ==
    LET frameNumber == GetUint32(message, 8)
        totalChunks == GetUint32(message, 16)
        originalHeader == Slice(message, HEADER_SIZE, 2 * HEADER_SIZE)
    IN  IF HasAllChunks(st.bufs, frameNumber, totalChunks)
        THEN LET r == handleRegularMessage(streamType,
                          CompleteMessage(originalHeader,
                                          ReconstructedData(st.bufs[frameNumber].chunks)),
                          st, cbThrows)
             IN  Started(Unreported(r), <<Continuation("cleanup", frameNumber, r),
                                       Continuation("catch", 0, r),
                                       Continuation("return", 0, r)>>)
        ELSE Started(st, <<Continuation("catch", 0, st), Continuation("return", 0, st)>>)

\* ws.onmessage up to the point where the call stack is empty again.
StartBinaryMessage(streamType, message, st, cbThrows) ==
    IF Len(message) < HEADER_SIZE
    THEN Started([st EXCEPT !.thrown = TRUE, !.error = ErrTooShort],
                 <<Continuation("return", 0, st)>>)
    ELSE LET magic == Slice(message, 0, 4)
         IN  IF arraysEqual(magic, MAGIC_BYTES_CHUN)
                 THEN StartChunkMessage(streamType, message, st,
                                        handleChunkMessage(streamType, message, st))
             ELSE IF arraysEqual(magic, MAGIC_BYTES_EOFR)
                 THEN StartEndOfFrame(streamType, message, st, cbThrows)
             ELSE IF arraysEqual(magic, MAGIC_BYTES_LIDR)
                 THEN StartRegularMessage(streamType, message, st, cbThrows,
                            handleRegularMessage(streamType, message, st, cbThrows))
             ELSE Started(st, <<Continuation("return", 0, st)>>)

\* No handler is suspended at an await.
NoMicrotasks == [microtasks |-> <<>>, queued |-> <<>>, expected |-> Outcome(EmptyMap, 0, 0)]

\* Faulty variant of EventLoopIdle: continuations deferred to later tasks, so
\* that a message event may be dispatched before them.
EventLoopIdleAlways(queue) == TRUE

\* A message event is dispatched as a task: when the microtasks of the task
\* before it have all run.
EventLoopIdle(queue) == queue = <<>>


(***************************************************************************)
(* The frame encoder (the streaming server).  A frame to send is           *)
(*   [streamTypeId, frameNumber, shape0, shape1, minVal, maxVal, payload]  *)
(* with payload a sequence of float32 bit patterns.                        *)
(***************************************************************************)
U32LE(n) ==
    <<n % 256, (n \div 256) % 256, (n \div 65536) % 256, (n \div 16777216) % 256>>

RECURSIVE Log2(_)
Log2(n) == IF n < 2 THEN 0 ELSE 1 + Log2(n \div 2)

\* 2^e for e in 0..23, read from a table computed once.
Pow2Table ==
    LET RECURSIVE P(_)
        P(e) == IF e = 0 THEN 1 ELSE 2 * P(e - 1)
    IN  <<P(0)>> \o [e \in 1..23 |-> P(e)]
Pow2(e) == Pow2Table[e + 1]

\* The float32 bit pattern of a natural number below 2^24 (chunk offsets).
Float32Bits(n) ==
    IF n = 0 THEN 0
    ELSE LET e == Log2(n)
         IN  (127 + e) * Pow2(23) + (n - Pow2(e)) * Pow2(23 - e)

RECURSIVE PayloadBytes(_)
PayloadBytes(payload) ==
    IF payload = <<>> THEN <<>> ELSE U32LE(Head(payload)) \o PayloadBytes(Tail(payload))

StandardHeader(frame) ==
    MAGIC_BYTES_LIDR \o U32LE(frame.streamTypeId) \o U32LE(frame.frameNumber)
        \o U32LE(frame.shape0) \o U32LE(frame.shape1)
        \o U32LE(frame.minVal) \o U32LE(frame.maxVal) \o U32LE(0)

EncodeStandard(frame) == StandardHeader(frame) \o PayloadBytes(frame.payload)

TotalSize(frame) == HEADER_SIZE + Len(frame.payload) * FLOAT32_BYTES

\* Faulty variant of NeedsChunking: a frame of exactly the threshold is chunked.
NeedsChunkingFromThreshold(frame, maxMessageSize) == TotalSize(frame) >= maxMessageSize

NeedsChunking(frame, maxMessageSize) == TotalSize(frame) > maxMessageSize

\* Faulty variant of NumChunks: the division rounds down.
NumChunksRoundedDown(dataSize, chunkSize) == dataSize \div chunkSize

NumChunks(dataSize, chunkSize) == (dataSize + chunkSize - 1) \div chunkSize

ChunkBytes(bytes, i, chunkSize) ==
    SubSeq(bytes, i * chunkSize + 1, Min((i + 1) * chunkSize, Len(bytes)))

EncodeChunk(frame, i, chunkSize) ==
    LET bytes == PayloadBytes(frame.payload)
        chunk == ChunkBytes(bytes, i, chunkSize)
    IN  MAGIC_BYTES_CHUN \o U32LE(frame.streamTypeId) \o U32LE(frame.frameNumber)
            \o U32LE(i) \o U32LE(NumChunks(Len(bytes), chunkSize))
            \o U32LE(Float32Bits(i * chunkSize))
            \o U32LE(Float32Bits(i * chunkSize + Len(chunk)))
            \o U32LE(Len(chunk)) \o chunk

EndOfFrameHeader(streamTypeId, frameNumber, dataSize, totalChunks) ==
    MAGIC_BYTES_EOFR \o U32LE(streamTypeId) \o U32LE(frameNumber)
        \o U32LE(dataSize) \o U32LE(totalChunks) \o Zeros(12)

\* Faulty variant of EncodeEndOfFrame: a whole Standard message follows the
\* EndOfFrame header, payload included.
EncodeEndOfFrameWithPayload(frame, chunkSize) ==
    LET dataSize == Len(frame.payload) * FLOAT32_BYTES
    IN  EndOfFrameHeader(frame.streamTypeId, frame.frameNumber, dataSize,
                         NumChunks(dataSize, chunkSize))
            \o EncodeStandard(frame)

EncodeEndOfFrame(frame, chunkSize) ==
    LET dataSize == Len(frame.payload) * FLOAT32_BYTES
    IN  EndOfFrameHeader(frame.streamTypeId, frame.frameNumber, dataSize,
                         NumChunks(dataSize, chunkSize))
            \o StandardHeader(frame)

\* The ordered sequence of wire messages the encoder emits for a frame.
EncodeFrame(frame, maxMessageSize, chunkSize) ==
    IF ~NeedsChunking(frame, maxMessageSize)
    THEN <<EncodeStandard(frame)>>
    ELSE [i \in 1..NumChunks(Len(frame.payload) * FLOAT32_BYTES, chunkSize) |->
              EncodeChunk(frame, i - 1, chunkSize)]
         \o <<EncodeEndOfFrame(frame, chunkSize)>>

\* Faulty variant of IsShapeConsistent: a payload longer than the declared
\* shape is accepted.
PayloadCoversShape(frame) ==
    Len(frame.payload) >= frame.shape0 * Max(frame.shape1, 1)

IsShapeConsistent(frame) ==
    Len(frame.payload) = frame.shape0 * Max(frame.shape1, 1)

PayloadShapeInconsistency == "PayloadShapeInconsistency"

\* The encoder as a whole: it fails fast on a payload that does not have the
\* declared shape and otherwise returns the messages of the frame.
Encode(frame, maxMessageSize, chunkSize) ==
    IF ~IsShapeConsistent(frame)
    THEN [frame |-> frame, error |-> PayloadShapeInconsistency, messages |-> <<>>]
    ELSE [frame |-> frame, error |-> NoError,
          messages |-> EncodeFrame(frame, maxMessageSize, chunkSize)]

NotEncoded == [frame |-> <<>>, error |-> NoError, messages |-> <<>>]

(***************************************************************************)
(* The frames the sender of the model produces.                            *)
(***************************************************************************)
Shapes == {<<1, 0>>, <<1, 2>>, <<2, 2>>, <<5, 0>>}

\* Distinct positive float32 patterns in [1.0, 2.0), every byte of a value
\* different from its neighbours', so byte and value order are observable.
PayloadValue(n, i) == 1065353216 + 65536 * n + 256 * (16 * i) + (3 * i + n)

MakeFrame(stream, frameNumber, shape) ==
    LET n == shape[1] * Max(shape[2], 1)
    IN  [streamTypeId |-> STREAM_TYPE_IDS[stream],
         frameNumber |-> frameNumber,
         shape0 |-> shape[1],
         shape1 |-> shape[2],
         minVal |-> PayloadValue(n, 1),
         maxVal |-> PayloadValue(n, n),
         payload |-> [i \in 1..n |-> PayloadValue(n, i)]]

SenderFrames(stream) ==
    {MakeFrame(stream, f, shape) : f \in FrameNumbers, shape \in Shapes}

\* What a caller may hand to the encoder: the header fields of a sender
\* frame with a payload of any length.
CallerFrames(stream) ==
    {[F EXCEPT !.payload = [i \in 1..n |-> PayloadValue(n, i)]] :
        F \in SenderFrames(stream), n \in 0..MaxPayloadLength}

StandardFrames(s) == {F \in SenderFrames(s) : ~NeedsChunking(F, MaxMessageSize)}
ChunkedFrames(s) == {F \in SenderFrames(s) : NeedsChunking(F, MaxMessageSize)}


(***************************************************************************)
(* The fragment-shader experiment (src/README.md, class App).  animationId *)
(* 0 stands for null; the ids requestAnimationFrame returns are 1, 2, ...  *)
(* scheduled holds the ids of the callbacks the browser has yet to run.    *)
(* time counts the frames drawn since the renderer's startTime.            *)
(***************************************************************************)
NoAnimation == 0

\* constructor()
NewApp ==
    [phase |-> "constructed", hidden |-> FALSE, listening |-> FALSE,
     renderer |-> "none", isRunning |-> FALSE, animationId |-> NoAnimation,
     scheduled |-> {}, requests |-> 0, time |-> 0]

\* animate(): draw, then requestAnimationFrame(this.animate).  render() returns
\* at once while the renderer has no program.
App_animate(a) ==
    IF ~a.isRunning THEN a
    ELSE [a EXCEPT !.time = IF a.renderer = "ready" THEN @ + 1 ELSE @,
                   !.requests = @ + 1,
                   !.animationId = a.requests + 1,
                   !.scheduled = @ \cup {a.requests + 1}]

App_start(a) ==
    IF a.isRunning THEN a ELSE App_animate([a EXCEPT !.isRunning = TRUE])

App_pause(a) ==
    IF ~a.isRunning THEN a
    ELSE [a EXCEPT !.isRunning = FALSE,
                   !.scheduled = IF a.animationId # NoAnimation
                                  THEN @ \ {a.animationId} ELSE @,
                   !.animationId = NoAnimation]

App_toggle(a) == IF a.isRunning THEN App_pause(a) ELSE App_start(a)

App_reset(a) == IF a.renderer # "none" THEN [a EXCEPT !.time = 0] ELSE a

App_handleVisibilityChange(a) ==
    IF a.hidden /\ a.isRunning THEN App_pause(a)
    ELSE IF ~a.hidden /\ ~a.isRunning THEN App_start(a)
    ELSE a

\* handleError(): report, then pause().
App_handleError(a) == App_pause(a)

\* init().  renderer.init() has no await of its own, so no event is handled
\* between the first and the last statement of init().
App_init(a, canvasFound, rendererOk) ==
    IF ~canvasFound
    THEN [App_handleError(a) EXCEPT !.phase = "failed"]
    ELSE LET listening == [a EXCEPT !.listening = TRUE, !.renderer = "created"]
         IN  IF ~rendererOk
             THEN [App_handleError(listening) EXCEPT !.phase = "failed"]
             ELSE [App_start([listening EXCEPT !.renderer = "ready"])
                      EXCEPT !.phase = "ready"]

(***************************************************************************)
(* The Zone of the 3-D world (src/src/World3D/zone.ts).  A vertex is a     *)
(* pair <<x, z>>; zoneVertices holds the positions of the box meshes,      *)
(* zoneLine and zoneSkyscraperWire tell whether the line and the wireframe *)
(* exist.  lastCall records the most recent operation, the vertices before *)
(* it and what it returned.                                                *)
(***************************************************************************)
MAX_ZONE_VERTICES == 4

\* The positions the application puts vertices at, besides the origin.
Points == {<<1, 2>>}

\* The inverse of the extrinsics transform, here a translation.
ExtrinsicsTranslation == <<1, 0>>

worldToLocalCoordinates(p) ==
    <<p[1] - ExtrinsicsTranslation[1], p[2] - ExtrinsicsTranslation[2]>>

NoCall == [op |-> "none", before |-> <<>>, returned |-> FALSE]

NewZone ==
    [xzVertices |-> <<>>, localXzVertices |-> <<>>, zoneVertices |-> <<>>,
     zoneLine |-> FALSE, zoneSkyscraperWire |-> FALSE, lastCall |-> NoCall]

Zone_isEmpty(z) == Len(z.xzVertices) = 0

Zone_updateZoneLineGeometry(z) == [z EXCEPT !.zoneLine = Len(z.xzVertices) >= 2]

Zone_updateZoneSkyscraperWireframe(z) ==
    [z EXCEPT !.zoneSkyscraperWire = Len(z.xzVertices) >= 2]

Zone_updateZoneGeometryFromXZVertices(z) ==
    Zone_updateZoneSkyscraperWireframe(Zone_updateZoneLineGeometry(
        [z EXCEPT !.zoneVertices =
            [i \in 1..Len(@) |-> IF i <= Len(z.xzVertices) THEN z.xzVertices[i] ELSE @[i]]]))

Zone_setXzVertices(z, xzVertices) ==
    [z EXCEPT !.xzVertices = xzVertices,
              !.localXzVertices =
                    [i \in 1..Len(xzVertices) |-> worldToLocalCoordinates(xzVertices[i])],
              !.lastCall = [op |-> "setXzVertices", before |-> z.xzVertices,
                            returned |-> FALSE]]

Zone_setLastVertexPosition(z, position) ==
    LET called == [z EXCEPT !.lastCall = [op |-> "setLastVertexPosition",
                                          before |-> z.xzVertices, returned |-> FALSE]]
        lastIdx == Len(z.xzVertices)
    IN  IF Zone_isEmpty(z) THEN called
        ELSE Zone_updateZoneGeometryFromXZVertices(
                [called EXCEPT !.xzVertices[lastIdx] = position,
                               !.localXzVertices[lastIdx] = worldToLocalCoordinates(position)])

Zone_addVertex(z) ==
    LET call(returned) == [op |-> "addVertex", before |-> z.xzVertices, returned |-> returned]
        point == IF Zone_isEmpty(z) THEN <<0, 0>> ELSE z.xzVertices[Len(z.xzVertices)]
    IN  IF Len(z.xzVertices) = MAX_ZONE_VERTICES
        THEN [z EXCEPT !.lastCall = call(FALSE)]
        ELSE Zone_updateZoneLineGeometry(
                [z EXCEPT !.xzVertices = Append(@, point),
                          !.localXzVertices = Append(@, worldToLocalCoordinates(point)),
                          !.zoneVertices = Append(@, point),
                          !.lastCall = call(TRUE)])

Zone_reset(z) ==
    [NewZone EXCEPT !.lastCall = [op |-> "reset", before |-> z.xzVertices,
                                  returned |-> FALSE]]

(***************************************************************************)
(* State                                                                   *)
(***************************************************************************)
NoSource == [kind |-> "none"]

NoEvent ==
    [stream |-> "none", message |-> <<>>, preKeys |-> <<>>,
     framesBefore |-> 0, bytesBefore |-> 0,
     delivered |-> NoFrame, callback |-> NoCallback,
     parsed |-> <<>>, errors |-> <<>>, source |-> NoSource]

\* What the application has seen of the sockets: callbacks[s][i] counts the
\* onConnect, onDisconnect and onError callbacks invoked by socket i of
\* stream s, lastOpened[s] is the socket of s whose open event came last (0:
\* none yet), disconnectedAll tells that disconnectAll() has returned and
\* connectToStream has not been called since.
NoCallbacks == [onConnect |-> 0, onDisconnect |-> 0, onError |-> 0]

NoHistory ==
    [callbacks |-> [s \in Streams |-> <<>>],
     lastOpened |-> [s \in Streams |-> 0],
     disconnectedAll |-> FALSE]

\* The constructor (lines 75-86): zero counters and an empty buffer object per
\* stream, no connection.
Init ==
    /\ chunkBuffers = [s \in Streams |-> EmptyMap]
    /\ frameCounters = [s \in Streams |-> 0]
    /\ dataReceived = [s \in Streams |-> 0]
    /\ socks = [s \in Streams |-> <<>>]
    /\ connections = [s \in Streams |-> 0]
    /\ tx = [s \in Streams |-> EmptyMap]
    /\ sends = 0
    /\ dropped = {}
    /\ last = NoEvent
    /\ eventLoop = NoMicrotasks
    /\ history = NoHistory
    /\ encoder = NotEncoded
    /\ app = NewApp
    /\ zone = NewZone

IsOpen(s) == \E i \in 1..Len(socks[s]) : socks[s][i] = "OPEN"

decoderVars == <<chunkBuffers, frameCounters, dataReceived, last, dropped, eventLoop>>

(***************************************************************************)
(* getStats (lines 426-438).  dataReceived / (1024 * 1024) is a division   *)
(* of an integer by a power of two, exact in a double: the quotient is     *)
(* kept as numerator and denominator.                                      *)
(***************************************************************************)
BYTES_PER_MB == 1024 * 1024

getStats ==
    [s \in Streams |->
        [frames |-> frameCounters[s],
         dataReceivedMB |-> [numerator |-> dataReceived[s], denominator |-> BYTES_PER_MB]]]

(***************************************************************************)
(* Connections (connectToStream, lines 108-163)                            *)
(***************************************************************************)
\* new WebSocket(url); the application connects each stream once.
ConnectToStream(s) ==
    /\ socks[s] = <<>>
    /\ socks' = [socks EXCEPT ![s] = Append(@, "CONNECTING")]
    /\ history' = [history EXCEPT !.callbacks[s] = Append(@, NoCallbacks),
                                  !.disconnectedAll = FALSE]
    /\ UNCHANGED <<connections, tx, sends, decoderVars, otherVars>>

\* connectToStream(streamType) called again for a stream: a further socket.
ConnectAgain(s) ==
    /\ socks[s] # <<>>
    /\ Len(socks[s]) < MaxSockets
    /\ socks' = [socks EXCEPT ![s] = Append(@, "CONNECTING")]
    /\ history' = [history EXCEPT !.callbacks[s] = Append(@, NoCallbacks),
                                  !.disconnectedAll = FALSE]
    /\ UNCHANGED <<connections, tx, sends, decoderVars, otherVars>>

\* ws.onopen
OnOpen(s, i) ==
    /\ socks[s][i] = "CONNECTING"
    /\ socks' = [socks EXCEPT ![s][i] = "OPEN"]
    /\ connections' = [connections EXCEPT ![s] = i]
    /\ history' = [history EXCEPT !.callbacks[s][i].onConnect = @ + 1,
                                  !.lastOpened[s] = i]
    /\ UNCHANGED <<tx, sends, decoderVars, otherVars>>

\* ws.onerror (lines 152-156): the connection attempt failed.  The browser
\* fires the socket's close event next.
OnError(s, i) ==
    /\ socks[s][i] = "CONNECTING"
    /\ history.callbacks[s][i].onError = 0
    /\ history' = [history EXCEPT !.callbacks[s][i].onError = @ + 1]
    /\ UNCHANGED <<socks, connections, tx, sends, decoderVars, otherVars>>

\* ws.onclose; what the server still had in flight on the socket is lost.
OnClose(s, i) ==
    /\ socks[s][i] \in {"CONNECTING", "OPEN", "CLOSING"}
    /\ socks' = [socks EXCEPT ![s][i] = "CLOSED"]
    /\ connections' = [connections EXCEPT ![s] = 0]
    /\ tx' = [tx EXCEPT ![s] = EmptyMap]
    /\ history' = [history EXCEPT !.callbacks[s][i].onDisconnect = @ + 1]
    /\ UNCHANGED <<sends, decoderVars, otherVars>>

\* The body of disconnectStream (lines 182-186) on the maps: close() of the
\* registered socket when it is open, then connections.delete(streamType).
CloseRegistered(sockets, registered) ==
    IF registered # 0 /\ sockets[registered] = "OPEN"
    THEN [sockets EXCEPT ![registered] = "CLOSING"]
    ELSE sockets

\* disconnectStream(streamType)
DisconnectStream(s) ==
    /\ socks' = [socks EXCEPT ![s] = CloseRegistered(socks[s], connections[s])]
    /\ connections' = [connections EXCEPT ![s] = 0]
    /\ UNCHANGED <<tx, sends, history, decoderVars, otherVars>>

\* disconnectAll(): close() of every registered open socket, connections.clear().
DisconnectAll ==
    /\ socks' = [s \in Streams |-> CloseRegistered(socks[s], connections[s])]
    /\ connections' = [s \in Streams |-> 0]
    /\ history' = [history EXCEPT !.disconnectedAll = TRUE]
    /\ UNCHANGED <<tx, sends, decoderVars, otherVars>>

(***************************************************************************)
(* ws.onmessage with a binary message (lines 125-129): one run of          *)
(* handleBinaryMessage on the stream's part of the state.                  *)
(***************************************************************************)
FrameNumberOf(message) == IF Len(message) >= 12 THEN GetUint32(message, 8) ELSE -1
TotalChunksOf(message) == IF Len(message) >= 20 THEN GetUint32(message, 16) ELSE -1
MagicOf(message) == Slice(message, 0, 4)

\* The chunk indices collected for a frame number, in arrival order.
ChunkKeys(bufs, f) == IF f \in DOMAIN bufs THEN MapKeys(bufs[f].chunks) ELSE <<>>

IsMissingChunksDrop(s, message) ==
    /\ Len(message) >= HEADER_SIZE
    /\ arraysEqual(MagicOf(message), MAGIC_BYTES_EOFR)
    /\ ~HasAllChunks(chunkBuffers[s], FrameNumberOf(message), TotalChunksOf(message))

\* The handler's outcome r written back to the client's state.
Commit(s, message, source, r) ==
    /\ chunkBuffers' = [chunkBuffers EXCEPT ![s] = r.bufs]
    /\ frameCounters' = [frameCounters EXCEPT ![s] = r.frames]
    /\ dataReceived' = [dataReceived EXCEPT ![s] = r.bytes]
    /\ dropped' = IF IsMissingChunksDrop(s, message)
                      THEN dropped \cup {<<s, FrameNumberOf(message)>>}
                  ELSE IF r.delivered # NoFrame /\ source.kind = "eof"
                      THEN dropped \ {<<s, FrameNumberOf(message)>>}
                  ELSE dropped
    /\ last' = [stream |-> s, message |-> message,
                preKeys |-> ChunkKeys(chunkBuffers[s], FrameNumberOf(message)),
                framesBefore |-> frameCounters[s],
                bytesBefore |-> dataReceived[s],
                delivered |-> r.delivered, callback |-> r.callback, parsed |-> r.parsed,
                errors |-> OnErrorCalls(r), source |-> source]
    /\ UNCHANGED <<history, otherVars>>

\* The synchronous part written back; expected is what the handler does
\* when it runs from its first to its last statement without interruption.
CommitStarted(s, message, started, expected) ==
    /\ Commit(s, message, [kind |-> "event"], started.st)
    /\ eventLoop' = [microtasks |-> eventLoop.microtasks \o started.continuations,
                     queued |-> started.continuations,
                     expected |-> expected]

OnMessage(s, message, cbThrows, source) ==
    /\ IsOpen(s)
    /\ Commit(s, message, source,
              handleBinaryMessage(s, message,
                  Outcome(chunkBuffers[s], frameCounters[s], dataReceived[s]), cbThrows))
    /\ UNCHANGED <<socks, connections, eventLoop>>

(***************************************************************************)
(* The sender and the transport                                            *)
(***************************************************************************)
\* A frame that fits is sent, and arrives, as one Standard message.
SendStandard(s, frame, cbThrows) ==
    /\ sends < MaxSends
    /\ IsOpen(s)
    /\ ~NeedsChunking(frame, MaxMessageSize)
    /\ OnMessage(s, EncodeStandard(frame), cbThrows, [kind |-> "standard", frame |-> frame])
    /\ sends' = sends + 1
    /\ UNCHANGED tx

\* A larger frame goes on the wire as N Chunk messages and an EndOfFrame.
StartChunked(s, frame) ==
    /\ IsOpen(s)
    /\ sends < MaxSends
    /\ NeedsChunking(frame, MaxMessageSize)
    /\ frame.frameNumber \notin DOMAIN tx[s]
    /\ tx' = [tx EXCEPT ![s] = @ @@ (frame.frameNumber :>
                [frame |-> frame,
                 pending |-> 0..(NumChunks(Len(frame.payload) * FLOAT32_BYTES, ChunkSize) - 1),
                 lost |-> FALSE,
                 eofDelivered |-> FALSE,
                 delivered |-> FALSE,
                 duplicated |-> FALSE,
                 afterDrop |-> <<s, frame.frameNumber>> \in dropped,
                 overtakenBy |-> {}])]
    /\ sends' = sends + 1
    /\ UNCHANGED <<socks, connections, history, decoderVars, otherVars>>

Pending(s, f) == IF f \in DOMAIN tx[s] THEN tx[s][f].pending ELSE {}

\* A message event dispatched by the event loop: the synchronous part of
\* ws.onmessage runs and leaves its continuations as microtasks.
BeginMessage(s, message, cbThrows) ==
    /\ sends < MaxAsyncMessages
    /\ IsOpen(s)
    /\ EventLoopIdle(eventLoop.microtasks)
    /\ LET st == Outcome(chunkBuffers[s], frameCounters[s], dataReceived[s])
           started == StartBinaryMessage(s, message, st, cbThrows)
       IN  /\ CommitStarted(s, message, started,
                            handleBinaryMessage(s, message, st, cbThrows))
    /\ sends' = sends + 1
    /\ UNCHANGED <<socks, connections, tx>>

\* The microtask at the head of the queue runs.
RunMicrotask ==
    /\ eventLoop.microtasks # <<>>
    /\ LET c == Head(eventLoop.microtasks)
           s == last.stream
       IN  /\ chunkBuffers' =
                  IF c.kind = "cleanup" /\ ~c.rejected
                  THEN [chunkBuffers EXCEPT ![s] = DeleteKey(@, c.frameNumber)]
                  ELSE chunkBuffers
           /\ last' = IF c.kind = "catch" /\ c.rejected
                      THEN [last EXCEPT !.errors = Append(@, c.error)]
                      ELSE last
    /\ eventLoop' = [eventLoop EXCEPT !.microtasks = Tail(@)]
    /\ UNCHANGED <<frameCounters, dataReceived, dropped, socks, connections, tx, sends,
                   history, otherVars>>

\* The lowest chunk index still on the wire, -1 when there is none.
FirstPending(s, f) ==
    IF Pending(s, f) = {} THEN -1
    ELSE CHOOSE i \in Pending(s, f) : \A j \in Pending(s, f) : i <= j

TxSource(kind, t) ==
    [kind |-> kind, frame |-> t.frame, lost |-> t.lost, duplicated |-> t.duplicated,
     afterDrop |-> t.afterDrop, overtakenBy |-> t.overtakenBy]

\* The chunks of a frame arrive in any order.
DeliverChunk(s, f, i) ==
    /\ f \in DOMAIN tx[s]
    /\ i \in tx[s][f].pending
    /\ OnMessage(s, EncodeChunk(tx[s][f].frame, i, ChunkSize), FALSE,
                 TxSource("chunk", tx[s][f]))
    /\ tx' = [tx EXCEPT ![s][f].pending = @ \ {i}]
    /\ UNCHANGED sends

\* The transport delivers a chunk a second time while the frame is collecting.
DeliverDuplicate(s, f, i) ==
    /\ f \in DOMAIN tx[s]
    /\ ~tx[s][f].eofDelivered
    /\ i \notin tx[s][f].pending
    /\ i \in {ChunkKeys(chunkBuffers[s], f)[k] : k \in 1..Len(ChunkKeys(chunkBuffers[s], f))}
    /\ OnMessage(s, EncodeChunk(tx[s][f].frame, i, ChunkSize), FALSE,
                 TxSource("duplicate", tx[s][f]))
    /\ tx' = [tx EXCEPT ![s][f].duplicated = TRUE]
    /\ UNCHANGED sends

\* The transport loses a chunk.
LoseChunk(s, f, i) ==
    /\ f \in DOMAIN tx[s]
    /\ i \in tx[s][f].pending
    /\ tx' = [tx EXCEPT ![s][f].pending = @ \ {i}, ![s][f].lost = TRUE]
    /\ UNCHANGED <<socks, connections, history, sends, decoderVars, otherVars>>

\* The EndOfFrame of a frame arrives after the frame's own chunks; a frame of
\* another key of which chunks have arrived already has then been overtaken.
DeliverEndOfFrame(s, f, cbThrows) ==
    /\ f \in DOMAIN tx[s]
    /\ tx[s][f].pending = {}
    /\ ~tx[s][f].eofDelivered
    /\ OnMessage(s, EncodeEndOfFrame(tx[s][f].frame, ChunkSize), cbThrows,
                 TxSource("eof", tx[s][f]))
    /\ tx' = [s2 \in Streams |->
                [f2 \in DOMAIN tx[s2] \ (IF s2 = s THEN {f} ELSE {}) |->
                    [tx[s2][f2] EXCEPT !.overtakenBy =
                        IF ChunkKeys(chunkBuffers[s2], f2) # <<>> THEN @ \cup {<<s, f>>} ELSE @]]]
    /\ UNCHANGED sends

\* A transport that does not keep the order of messages delivers the
\* EndOfFrame of a frame while chunks of the frame are still on the wire.
DeliverEndOfFrameEarly(s, f) ==
    /\ f \in DOMAIN tx[s]
    /\ tx[s][f].pending # {}
    /\ ~tx[s][f].eofDelivered
    /\ OnMessage(s, EncodeEndOfFrame(tx[s][f].frame, ChunkSize), FALSE,
                 TxSource("eof-early", tx[s][f]))
    /\ tx' = [tx EXCEPT ![s][f].eofDelivered = TRUE,
                         ![s][f].delivered = (last'.delivered # NoFrame)]
    /\ UNCHANGED sends

\* The transport delivers the EndOfFrame just handled a second time.
RepeatEndOfFrame(s, cbThrows) ==
    /\ IsOpen(s)
    /\ last.stream = s
    /\ last.source.kind = "eof"
    /\ OnMessage(s, last.message, cbThrows,
                 [kind |-> "eof-repeat", frame |-> last.source.frame,
                  completed |-> last.delivered # NoFrame])
    /\ UNCHANGED <<tx, sends>>

(***************************************************************************)
(* Messages no well-behaved sender produces: truncated, corrupted or       *)
(* unsolicited ones.                                                       *)
(***************************************************************************)
UNKNOWN_MAGIC == <<88, 88, 88, 88>>
UnknownStreamTypeId == Cardinality(DOMAIN STREAM_TYPES)

WithMagic(message, magic) == magic \o Slice(message, 4, Len(message))

Truncated(message) == Slice(message, 0, Len(message) - FLOAT32_BYTES)

\* An EndOfFrame of frame F whose embedded original header, or total chunk
\* count, is not the one the encoder writes.
CorruptEndOfFrame(F, how) ==
    LET dataSize == Len(F.payload) * FLOAT32_BYTES
        n == NumChunks(dataSize, ChunkSize)
        eofr(total, header) ==
            EndOfFrameHeader(F.streamTypeId, F.frameNumber, dataSize, total) \o header
    IN  CASE how = "magic" -> eofr(n, WithMagic(StandardHeader(F), UNKNOWN_MAGIC))
          [] how = "type" ->
                eofr(n, StandardHeader([F EXCEPT !.streamTypeId = UnknownStreamTypeId]))
          [] how = "shape" -> eofr(n, StandardHeader([F EXCEPT !.shape0 = F.shape0 - 1]))
          [] how = "short" -> EndOfFrameHeader(F.streamTypeId, F.frameNumber, dataSize, n)
          [] how = "total" -> eofr(n - 1, StandardHeader(F))
          [] how = "none" -> eofr(n, StandardHeader(F))

Corruptions == {"magic", "type", "shape", "short", "total", "none"}

CorruptStandard(F) ==
    {Slice(EncodeStandard(F), 0, 12),
     WithMagic(EncodeStandard(F), UNKNOWN_MAGIC),
     EncodeStandard([F EXCEPT !.streamTypeId = UnknownStreamTypeId]),
     Truncated(EncodeStandard(F))}

\* A well-formed Standard message whose header names another stream type
\* than the one of the connection it arrives on.
OtherStreamTypeId(id) == (id + 1) % Cardinality(DOMAIN STREAM_TYPES)

ForeignStandard(F) ==
    {EncodeStandard([F EXCEPT !.streamTypeId = OtherStreamTypeId(F.streamTypeId)])}

StrayMessages(s) ==
    UNION {CorruptStandard(F) \cup ForeignStandard(F) :
                F \in {G \in StandardFrames(s) : G.shape1 > 0}}
    \cup {CorruptEndOfFrame(F, how) : F \in ChunkedFrames(s), how \in Corruptions}

ReceiveStray(s, message, cbThrows) ==
    /\ sends < MaxSends
    /\ IsOpen(s)
    /\ OnMessage(s, message, cbThrows, [kind |-> "stray"])
    /\ sends' = sends + 1
    /\ UNCHANGED tx

(***************************************************************************)
(* Specifications                                                          *)
(***************************************************************************)
\* The sender transmits one chunked frame at a time and its chunks arrive in
\* index order, but the transport may lose chunks, stray messages arrive and
\* the consumer callbacks may throw.
Idle == \A s \in Streams : tx[s] = EmptyMap

Next ==
    \/ \E s \in Streams : ConnectToStream(s)
    \/ \E s \in Streams : \E i \in 1..Len(socks[s]) : OnOpen(s, i)
    \/ \E s \in Streams : \E F \in StandardFrames(s), cb \in BOOLEAN : SendStandard(s, F, cb)
    \/ \E s \in Streams : \E F \in ChunkedFrames(s) : Idle /\ StartChunked(s, F)
    \/ \E s \in Streams, f \in FrameNumbers : DeliverChunk(s, f, FirstPending(s, f))
    \/ \E s \in Streams, f \in FrameNumbers : LoseChunk(s, f, FirstPending(s, f))
    \/ \E s \in Streams, f \in FrameNumbers, cb \in BOOLEAN : DeliverEndOfFrame(s, f, cb)
    \/ \E s \in Streams : \E m \in StrayMessages(s), cb \in BOOLEAN : ReceiveStray(s, m, cb)

Spec == Init /\ [][Next]_vars

\* The sender hands a frame to the encoder.  Nothing but the returned
\* messages goes on the wire.
EncodeCall(frame) ==
    /\ encoder' = Encode(frame, MaxMessageSize, ChunkSize)
    /\ UNCHANGED <<socks, connections, history, tx, sends, decoderVars, app, zone>>

NextEncoder == \E s \in Streams : \E frame \in CallerFrames(s) : EncodeCall(frame)

SpecEncoder == Init /\ [][NextEncoder]_vars

\* The events of the fragment-shader experiment.  The client and the encoder
\* take no part in them.
clientVars == <<socks, connections, history, tx, sends, decoderVars>>

CanRequestFrame == app.requests < MaxAnimationFrames

\* DOMContentLoaded: new App() and app.init()
InitApp(canvasFound, rendererOk) ==
    /\ app.phase = "constructed"
    /\ app' = App_init(app, canvasFound, rendererOk)
    /\ UNCHANGED <<clientVars, encoder, zone>>

\* The tab is hidden or shown; the handler runs once init() has registered it.
VisibilityChange ==
    /\ CanRequestFrame
    /\ LET flipped == [app EXCEPT !.hidden = ~@]
       IN  app' = IF app.listening THEN App_handleVisibilityChange(flipped) ELSE flipped
    /\ UNCHANGED <<clientVars, encoder, zone>>

StartApp ==
    /\ app.phase = "ready"
    /\ CanRequestFrame
    /\ app' = App_start(app)
    /\ UNCHANGED <<clientVars, encoder, zone>>

PauseApp ==
    /\ app.phase = "ready"
    /\ app' = App_pause(app)
    /\ UNCHANGED <<clientVars, encoder, zone>>

\* The play/pause button or the space key
ToggleApp ==
    /\ app.listening
    /\ CanRequestFrame
    /\ app' = App_toggle(app)
    /\ UNCHANGED <<clientVars, encoder, zone>>

\* The reset button or the R key
ResetApp ==
    /\ app.listening
    /\ app' = App_reset(app)
    /\ UNCHANGED <<clientVars, encoder, zone>>

\* The browser runs a requested animation frame callback; it runs none while
\* the document is hidden.
AnimationFrame(id) ==
    /\ id \in app.scheduled
    /\ ~app.hidden
    /\ CanRequestFrame
    /\ app' = App_animate([app EXCEPT !.scheduled = @ \ {id}])
    /\ UNCHANGED <<clientVars, encoder, zone>>

NextApp ==
    \/ \E canvasFound, rendererOk \in BOOLEAN : InitApp(canvasFound, rendererOk)
    \/ VisibilityChange
    \/ StartApp
    \/ PauseApp
    \/ ToggleApp
    \/ ResetApp
    \/ \E id \in 1..MaxAnimationFrames : AnimationFrame(id)

SpecApp == Init /\ [][NextApp]_vars

\* The operations of the Zone, called in any order.
VertexArrays ==
    {[i \in 1..n |-> p] : n \in 0..(MAX_ZONE_VERTICES + 1), p \in Points}

SetXzVertices(xzVertices) ==
    /\ zone' = Zone_setXzVertices(zone, xzVertices)
    /\ UNCHANGED <<clientVars, encoder, app>>

SetLastVertexPosition(position) ==
    /\ zone' = Zone_setLastVertexPosition(zone, position)
    /\ UNCHANGED <<clientVars, encoder, app>>

AddVertex ==
    /\ Len(zone.xzVertices) < MaxZoneLength
    /\ Len(zone.zoneVertices) < MaxZoneLength
    /\ zone' = Zone_addVertex(zone)
    /\ UNCHANGED <<clientVars, encoder, app>>

ResetZone ==
    /\ zone' = Zone_reset(zone)
    /\ UNCHANGED <<clientVars, encoder, app>>

NextZone ==
    \/ \E xzVertices \in VertexArrays : SetXzVertices(xzVertices)
    \/ \E position \in Points : SetLastVertexPosition(position)
    \/ AddVertex
    \/ ResetZone

SpecZone == Init /\ [][NextZone]_vars

\* A transport that loses nothing and a consumer that does not throw: every
\* connection stays open and every chunk sent arrives, in any order.
NextLossless ==
    \/ \E s \in Streams : ConnectToStream(s)
    \/ \E s \in Streams : \E i \in 1..Len(socks[s]) : OnOpen(s, i)
    \/ \E s \in Streams : \E F \in StandardFrames(s) : SendStandard(s, F, FALSE)
    \/ \E s \in Streams : \E F \in ChunkedFrames(s) : StartChunked(s, F)
    \/ \E s \in Streams, f \in FrameNumbers : \E i \in Pending(s, f) : DeliverChunk(s, f, i)
    \/ \E s \in Streams, f \in FrameNumbers : DeliverEndOfFrame(s, f, FALSE)

SpecLossless == Init /\ [][NextLossless]_vars

\* A transport that loses nothing but keeps no order at all, the EndOfFrame
\* included; one chunked frame is in flight at a time and every message on
\* the wire is delivered sooner or later.
InFlight(s, f) ==
    f \in DOMAIN tx[s] /\ ~(tx[s][f].eofDelivered /\ tx[s][f].pending = {})

NextUnordered ==
    \/ \E s \in Streams : ConnectToStream(s)
    \/ \E s \in Streams : \E i \in 1..Len(socks[s]) : OnOpen(s, i)
    \/ \E s \in Streams : \E F \in StandardFrames(s) : SendStandard(s, F, FALSE)
    \/ \E s \in Streams : \E F \in ChunkedFrames(s) :
            (\A s2 \in Streams, f2 \in FrameNumbers : ~InFlight(s2, f2)) /\ StartChunked(s, F)
    \/ \E s \in Streams, f \in FrameNumbers : \E i \in Pending(s, f) : DeliverChunk(s, f, i)
    \/ \E s \in Streams, f \in FrameNumbers : DeliverEndOfFrame(s, f, FALSE)
    \/ \E s \in Streams, f \in FrameNumbers : DeliverEndOfFrameEarly(s, f)

SpecUnordered == Init /\ [][NextUnordered]_vars

\* The handlers run as asynchronous functions on the event loop: message
\* events of two streams, each the synchronous part of ws.onmessage followed
\* by its microtasks.
AsyncFrame(s) == MakeFrame(s, 0, <<2, 2>>)

AsyncMessages(s) ==
    {EncodeChunk(AsyncFrame(s), i, ChunkSize) :
        i \in 0..(NumChunks(Len(AsyncFrame(s).payload) * FLOAT32_BYTES, ChunkSize) - 1)}
    \cup {CorruptEndOfFrame(AsyncFrame(s), how) : how \in {"none", "magic"}}
    \cup {EncodeStandard(MakeFrame(s, 0, <<1, 0>>)),
          Truncated(EncodeStandard(MakeFrame(s, 0, <<1, 0>>)))}

NextAsync ==
    \/ \E s \in Streams : ConnectToStream(s)
    \/ \E s \in Streams : \E i \in 1..Len(socks[s]) : OnOpen(s, i)
    \/ \E s \in Streams : \E m \in AsyncMessages(s), cb \in BOOLEAN : BeginMessage(s, m, cb)
    \/ RunMicrotask

SpecAsync == Init /\ [][NextAsync]_vars

\* A transport that loses nothing but may deliver a chunk more than once.
NextDuplicates ==
    \/ \E s \in Streams : ConnectToStream(s)
    \/ \E s \in Streams : \E i \in 1..Len(socks[s]) : OnOpen(s, i)
    \/ \E s \in Streams : \E F \in ChunkedFrames(s) : Idle /\ StartChunked(s, F)
    \/ \E s \in Streams, f \in FrameNumbers : \E i \in Pending(s, f) : DeliverChunk(s, f, i)
    \/ \E s \in Streams, f \in FrameNumbers :
            \E i \in 0..(MaxMessageSize \div FLOAT32_BYTES) : DeliverDuplicate(s, f, i)
    \/ \E s \in Streams, f \in FrameNumbers : DeliverEndOfFrame(s, f, FALSE)

SpecDuplicates == Init /\ [][NextDuplicates]_vars

\* Chunk and EndOfFrame messages of any sender: a chunk may carry an index
\* that is not below its total chunk count, an EndOfFrame a total chunk count
\* that is not the one of the chunks.
ChunkWithIndex(F, i, chunkIdx) ==
    SetBytes(EncodeChunk(F, i, ChunkSize), U32LE(chunkIdx), 12)

ArbitraryChunks(s) ==
    UNION {LET n == NumChunks(Len(F.payload) * FLOAT32_BYTES, ChunkSize)
           IN  {ChunkWithIndex(F, i, chunkIdx) : i \in 0..(n - 1), chunkIdx \in 0..n}
           : F \in ChunkedFrames(s)}

ArbitraryEndOfFrames(s) ==
    {CorruptEndOfFrame(F, how) : F \in ChunkedFrames(s), how \in {"total", "none"}}

ReceiveArbitrary(s, message) ==
    /\ sends < MaxArbitraryMessages
    /\ IsOpen(s)
    /\ OnMessage(s, message, FALSE, [kind |-> "arbitrary"])
    /\ sends' = sends + 1
    /\ UNCHANGED tx

NextArbitrary ==
    \/ \E s \in Streams : ConnectToStream(s)
    \/ \E s \in Streams : \E i \in 1..Len(socks[s]) : OnOpen(s, i)
    \/ \E s \in Streams : \E m \in ArbitraryChunks(s) : ReceiveArbitrary(s, m)
    \/ \E s \in Streams : \E m \in ArbitraryEndOfFrames(s) : ReceiveArbitrary(s, m)

SpecArbitrary == Init /\ [][NextArbitrary]_vars

\* isConnected(streamType), lines 443-446
isConnected(s) == connections[s] # 0 /\ socks[s][connections[s]] = "OPEN"

\* getConnectionStatus(), lines 451-460
getConnectionStatus == [s \in Streams |-> isConnected(s)]

\* The application connects, reconnects and disconnects while sockets open,
\* fail and close.
NextConnections ==
    \/ \E s \in Streams : ConnectToStream(s)
    \/ \E s \in Streams : ConnectAgain(s)
    \/ \E s \in Streams : \E i \in 1..Len(socks[s]) : OnOpen(s, i)
    \/ \E s \in Streams : \E i \in 1..Len(socks[s]) : OnError(s, i)
    \/ \E s \in Streams : \E i \in 1..Len(socks[s]) : OnClose(s, i)
    \/ \E s \in Streams : DisconnectStream(s)
    \/ DisconnectAll

SpecConnections == Init /\ [][NextConnections]_vars

\* A transport that repeats EndOfFrame messages, and consumer callbacks that
\* may throw.
NextRepeat ==
    \/ \E s \in Streams : ConnectToStream(s)
    \/ \E s \in Streams : \E i \in 1..Len(socks[s]) : OnOpen(s, i)
    \/ \E s \in Streams : \E F \in ChunkedFrames(s) : Idle /\ StartChunked(s, F)
    \/ \E s \in Streams, f \in FrameNumbers : DeliverChunk(s, f, FirstPending(s, f))
    \/ \E s \in Streams, f \in FrameNumbers, cb \in BOOLEAN : DeliverEndOfFrame(s, f, cb)
    \/ \E s \in Streams, cb \in BOOLEAN : RepeatEndOfFrame(s, cb)

SpecRepeat == Init /\ [][NextRepeat]_vars

\* Connections that are closed, by the peer or by the application, while
\* chunked frames are being received.
NextClose ==
    \/ \E s \in Streams : ConnectToStream(s)
    \/ \E s \in Streams : \E i \in 1..Len(socks[s]) : OnOpen(s, i)
    \/ \E s \in Streams : \E i \in 1..Len(socks[s]) : OnClose(s, i)
    \/ \E s \in Streams : DisconnectStream(s)
    \/ DisconnectAll
    \/ \E s \in Streams : \E F \in ChunkedFrames(s) : Idle /\ StartChunked(s, F)
    \/ \E s \in Streams, f \in FrameNumbers : DeliverChunk(s, f, FirstPending(s, f))
    \/ \E s \in Streams, f \in FrameNumbers : DeliverEndOfFrame(s, f, FALSE)

SpecClose == Init /\ [][NextClose]_vars


(***************************************************************************)
(* What the last handler run was about                                     *)
(***************************************************************************)
HasMagic(message, magic) ==
    Len(message) >= HEADER_SIZE /\ arraysEqual(MagicOf(message), magic)

LastIsEndOfFrame == HasMagic(last.message, MAGIC_BYTES_EOFR)
LastFrameNumber == FrameNumberOf(last.message)
LastTotalChunks == TotalChunksOf(last.message)
LastDelivered == last.delivered # NoFrame
LastBufferExists ==
    last.stream \in Streams /\ LastFrameNumber \in DOMAIN chunkBuffers[last.stream]
LastCountersUnchanged ==
    last.stream \in Streams =>
        /\ frameCounters[last.stream] = last.framesBefore
        /\ dataReceived[last.stream] = last.bytesBefore

IsAscending(seq) == \A i, j \in 1..Len(seq) : i < j => seq[i] < seq[j]

\* The decoded frame equals the frame the sender encoded.
SameFrame(delivered, F) ==
    /\ delivered.streamType = STREAM_TYPES[F.streamTypeId]
    /\ delivered.frameNumber = F.frameNumber
    /\ delivered.shape = (IF F.shape1 = 0 THEN <<F.shape0>> ELSE <<F.shape0, F.shape1>>)
    /\ delivered.minVal = F.minVal
    /\ delivered.maxVal = F.maxVal
    /\ delivered.data = F.payload

(***************************************************************************)
(* C1 (SpecLossless).  When all N chunks of a chunked frame have arrived,  *)
(* in whatever order, and then its EndOfFrame, a frame is delivered whose  *)
(* payload is the original payload: the chunks are concatenated in         *)
(* ascending index order, not in arrival order.                            *)
(***************************************************************************)
C1_ChunkOrderIndependence ==
    last.source.kind = "eof" =>
        /\ LastDelivered
        /\ last.delivered.data = last.source.frame.payload

\* A frame of three chunks, delivered after its chunks arrived out of order.
C1_Witness ==
    /\ last.source.kind = "eof"
    /\ LastDelivered
    /\ Len(last.preKeys) = 3
    /\ ~IsAscending(last.preKeys)

(***************************************************************************)
(* C2 (Spec).  An EndOfFrame processed while fewer than totalChunks chunks *)
(* are collected for its key, or no buffer exists, delivers no frame,      *)
(* reconstructs no message and counts nothing.                             *)
(***************************************************************************)
C2_MissingChunksNoDelivery ==
    (LastIsEndOfFrame /\ Len(last.preKeys) < LastTotalChunks) =>
        /\ ~LastDelivered
        /\ last.parsed = <<>>
        /\ LastCountersUnchanged

\* An EndOfFrame that found some, but not all, of the chunks.
C2_Witness ==
    /\ LastIsEndOfFrame
    /\ Len(last.preKeys) >= 1
    /\ Len(last.preKeys) < LastTotalChunks
    /\ ~LastDelivered

(***************************************************************************)
(* C3 (Spec).  A frame that fits in maxMessageSize, encoded as a Standard  *)
(* message and decoded, yields the original stream type, frame number,     *)
(* shape, minVal, maxVal and payload values in order.                      *)
(***************************************************************************)
C3_StandardRoundTrip ==
    last.source.kind = "standard" =>
        /\ LastDelivered
        /\ SameFrame(last.delivered, last.source.frame)

\* A two-dimensional frame of exactly maxMessageSize bytes, round-tripped.
C3_Witness ==
    /\ last.source.kind = "standard"
    /\ LastDelivered
    /\ Len(last.message) = MaxMessageSize - (MaxMessageSize % FLOAT32_BYTES)
    /\ Len(last.delivered.shape) = 2

(***************************************************************************)
(* C4 (Spec).  As claimed: after an EndOfFrame processed while the         *)
(* collected chunk count equals totalChunks, the buffer of the key no      *)
(* longer exists, whatever the embedded header holds and whatever the      *)
(* consumer callback does.                                                 *)
(***************************************************************************)
C4_CompleteFrameDiscardsBuffer ==
    (LastIsEndOfFrame /\ last.preKeys # <<>> /\ Len(last.preKeys) = LastTotalChunks) =>
        ~LastBufferExists

(***************************************************************************)
(* C5 (Spec).  As claimed: after an EndOfFrame processed with fewer than   *)
(* totalChunks chunks collected, no buffer remains for the key.            *)
(***************************************************************************)
C5_DropDiscardsBuffer ==
    (LastIsEndOfFrame /\ Len(last.preKeys) < LastTotalChunks) => ~LastBufferExists

(***************************************************************************)
(* C6 (Spec).  As claimed: after a frame was dropped for missing chunks, a *)
(* complete retransmission under the same key (all its chunks, then its    *)
(* EndOfFrame) is delivered with exactly the retransmitted payload.        *)
(***************************************************************************)
C6_RetransmissionDelivered ==
    (last.source.kind = "eof" /\ last.source.afterDrop /\ ~last.source.lost) =>
        /\ LastDelivered
        /\ last.delivered.data = last.source.frame.payload


(***************************************************************************)
(* C7 (SpecLossless).  When the chunks and EndOfFrames of frames with      *)
(* distinct (stream, frameNumber) keys arrive interleaved, each frame's    *)
(* EndOfFrame after its own chunks, every frame is delivered as the frame  *)
(* that was sent under its key, also when a later-numbered frame completed *)
(* first; meanwhile each buffer holds chunks of its own frame only.        *)
(***************************************************************************)
OtherBuffers ==
    {k \in Streams \X FrameNumbers :
        /\ k[2] \in DOMAIN chunkBuffers[k[1]]
        /\ k # <<last.stream, LastFrameNumber>>}

OwnChunksOnly(s, f) ==
    /\ f \in DOMAIN tx[s]
    /\ \A i \in 1..Len(chunkBuffers[s][f].chunks) :
          LET e == chunkBuffers[s][f].chunks[i]
          IN  e.data = ChunkBytes(PayloadBytes(tx[s][f].frame.payload), e.idx, ChunkSize)

C7_InterleavedFramesIndependent ==
    /\ \A s \in Streams : \A f \in DOMAIN chunkBuffers[s] : OwnChunksOnly(s, f)
    /\ (last.source.kind = "eof" /\ (last.source.overtakenBy # {} \/ OtherBuffers # {})) =>
          /\ LastDelivered
          /\ SameFrame(last.delivered, last.source.frame)
          /\ ~LastBufferExists

\* Frame 0 is delivered after frame 1 of the same stream, whose chunks arrived
\* in between, has completed.
C7_Witness ==
    /\ last.source.kind = "eof"
    /\ LastDelivered
    /\ last.delivered.frameNumber = 0
    /\ <<last.stream, 1>> \in last.source.overtakenBy

(***************************************************************************)
(* C8 (Spec).  Handling one message addressed to (s, f), valid, malformed  *)
(* or rejected, leaves the buffer of every other (stream, frameNumber) key *)
(* as it was and closes no connection.                                     *)
(***************************************************************************)
OtherKeysUnchanged ==
    \A s \in Streams :
        \A f \in (DOMAIN chunkBuffers[s]) \cup (DOMAIN chunkBuffers'[s]) :
            <<s, f>> # <<last'.stream, FrameNumberOf(last'.message)>> =>
                /\ f \in DOMAIN chunkBuffers[s]
                /\ f \in DOMAIN chunkBuffers'[s]
                /\ chunkBuffers'[s][f] = chunkBuffers[s][f]

C8_MessageIsolation ==
    [][(last' # last \/ chunkBuffers' # chunkBuffers) =>
            /\ OtherKeysUnchanged
            /\ socks' = socks
            /\ connections' = connections]_vars

\* A message was rejected with an error while another key held a buffer, and
\* the connection is still open.
C8_Witness ==
    /\ last.errors # <<>>
    /\ OtherBuffers # {}
    /\ IsOpen(last.stream)

(***************************************************************************)
(* C9 (Spec).  Every frame handed to a consumer callback, Standard or      *)
(* reassembled, comes from a message with magic "LIDR", a stream type id   *)
(* in 0..4 and a length of 32 + shape0 * max(shape1, 1) * 4 bytes, and     *)
(* holds shape0 * max(shape1, 1) payload values.                           *)
(***************************************************************************)
ValueCount(message) ==
    LET shape0 == GetUint32(message, 12)
        shape1 == GetUint32(message, 16)
    IN  shape0 * (IF shape1 >= 1 THEN shape1 ELSE 1)

IsValidMessage(message) ==
    /\ Len(message) >= 32
    /\ SubSeq(message, 1, 4) = <<76, 73, 68, 82>>
    /\ GetUint32(message, 4) \in 0..4
    /\ Len(message) = 32 + ValueCount(message) * 4

C9_DeliveredFramesAreValid ==
    LastDelivered =>
        /\ IsValidMessage(last.parsed)
        /\ Len(last.delivered.data) = ValueCount(last.parsed)

\* A frame reassembled from chunks was handed to the consumer callback.
C9_Witness ==
    /\ LastDelivered
    /\ LastIsEndOfFrame
    /\ Len(last.delivered.data) = 5

(***************************************************************************)
(* C10 (Spec).  A Standard or reassembled message that fails validation    *)
(* (invalid magic, unknown stream type, size mismatch) is reported through *)
(* the error callback, once; no frame is delivered for it and the frame    *)
(* and byte counters of the stream are unchanged.                          *)
(***************************************************************************)
ValidationErrors == {ErrInvalidMagic, ErrUnknownStreamType, ErrSizeMismatch}

C10_ValidationFailureReported ==
    (Len(last.parsed) >= 32 /\ ~IsValidMessage(last.parsed)) =>
        /\ Len(last.errors) = 1
        /\ last.errors[1] \in ValidationErrors
        /\ ~LastDelivered
        /\ LastCountersUnchanged

\* A reassembled message was rejected for its size.
C10_Witness ==
    /\ LastIsEndOfFrame
    /\ last.parsed # <<>>
    /\ last.errors = <<ErrSizeMismatch>>
    /\ ~LastDelivered


(***************************************************************************)
(* C11 (SpecUnordered).  As claimed: when the transport loses no message,  *)
(* every frame the sender emits is delivered to the consumer, whether the  *)
(* transport keeps the order of the messages or not.  Once every message   *)
(* of a frame has arrived no further message of the frame will, so by then *)
(* the frame must have been delivered.                                     *)
(***************************************************************************)
AllMessagesArrived(s, f) ==
    /\ f \in DOMAIN tx[s]
    /\ tx[s][f].pending = {}
    /\ tx[s][f].eofDelivered

C11_EveryFrameDelivered ==
    /\ \A s \in Streams, f \in FrameNumbers : AllMessagesArrived(s, f) => tx[s][f].delivered
    /\ last.source.kind \in {"standard", "eof"} =>
          /\ LastDelivered
          /\ last.delivered.data = last.source.frame.payload

(***************************************************************************)
(* C12 (SpecClose).  As claimed: once the connection of a stream is        *)
(* closed, by the peer, by disconnectStream or by disconnectAll, no        *)
(* reassembly buffer of that stream remains in the decoder state.          *)
(***************************************************************************)
ConnectionClosed(s) ==
    /\ socks[s] # <<>>
    /\ \A i \in 1..Len(socks[s]) : socks[s][i] = "CLOSED"

C12_CloseDiscardsBuffers ==
    \A s \in Streams : ConnectionClosed(s) => chunkBuffers[s] = EmptyMap

(***************************************************************************)
(* C13 (Spec).  As claimed: every completed frame is handed to exactly one *)
(* consumer callback, the one registered for the stream type decoded from  *)
(* the frame's header and reported in the delivered frame.                 *)
(***************************************************************************)
C13_DeliveredToOwnCallback ==
    LastDelivered => last.callback = CallbackFor(last.delivered.streamType)

(***************************************************************************)
(* C14 (SpecAsync).  Each message is handled atomically although the       *)
(* handlers are async functions that await one another: while a handler    *)
(* has continuations left, they are its own and no other message is being  *)
(* handled; when they have run, the decoder is in the state the handler    *)
(* produces when run without interruption, for an EndOfFrame the frame     *)
(* reconstructed, delivered and its buffer removed.                        *)
(***************************************************************************)
IsSuffix(a, b) == Len(a) <= Len(b) /\ a = SubSeq(b, Len(b) - Len(a) + 1, Len(b))

HandledAsIfUninterrupted ==
    LET e == eventLoop.expected
    IN  /\ chunkBuffers[last.stream] = e.bufs
        /\ frameCounters[last.stream] = e.frames
        /\ dataReceived[last.stream] = e.bytes
        /\ last.delivered = e.delivered
        /\ last.errors = OnErrorCalls(e)

C14_MessagesHandledAtomically ==
    last.source.kind = "event" =>
        /\ IsSuffix(eventLoop.microtasks, eventLoop.queued)
        /\ eventLoop.microtasks = <<>> => HandledAsIfUninterrupted

\* An EndOfFrame has been handled to its end, the frame delivered and the
\* buffer removed by the continuation that follows the await of line 300.
C14_Witness ==
    /\ last.source.kind = "event"
    /\ LastIsEndOfFrame
    /\ LastDelivered
    /\ eventLoop.microtasks = <<>>
    /\ eventLoop.queued # <<>>
    /\ eventLoop.queued[1].kind = "cleanup"
    /\ ~LastBufferExists

(***************************************************************************)
(* The messages of the frame the last handled message belongs to, and      *)
(* what the sender put on the wire for it.                                 *)
(***************************************************************************)
FromSender == last.source.kind \in {"standard", "chunk", "eof"}
SentFrame == last.source.frame
SentMessages == EncodeFrame(SentFrame, MaxMessageSize, ChunkSize)
SentPayloadLength == Len(SentFrame.payload) * 4

ChunkMessagesOf(messages) ==
    SelectSeq(messages, LAMBDA m : SubSeq(m, 1, 4) = <<67, 72, 85, 78>>)

EndOfFrameMessagesOf(messages) ==
    SelectSeq(messages, LAMBDA m : SubSeq(m, 1, 4) = <<69, 79, 70, 82>>)

ChunkPayload(message) == SubSeq(message, 33, Len(message))

RECURSIVE Concatenation(_)
Concatenation(seqs) ==
    IF seqs = <<>> THEN <<>> ELSE Head(seqs) \o Concatenation(Tail(seqs))

CeilingDiv(a, b) == (a \div b) + (IF a % b = 0 THEN 0 ELSE 1)

(***************************************************************************)
(* C15 (Spec).  A payload of L > 0 bytes chunked with chunkSize C goes out *)
(* as exactly ceil(L / C) Chunk messages; every chunk but the last carries *)
(* C payload bytes, the last L mod C, or C when C divides L; the chunks    *)
(* are consecutive slices that together are the payload.                   *)
(***************************************************************************)
C15_ChunkSizePartition ==
    (FromSender /\ last.source.kind # "standard") =>
        LET chunks == ChunkMessagesOf(SentMessages)
            n == Len(chunks)
            L == SentPayloadLength
        IN  /\ L > 0
            /\ n = CeilingDiv(L, ChunkSize)
            /\ \A i \in 1..(n - 1) : Len(ChunkPayload(chunks[i])) = ChunkSize
            /\ Len(ChunkPayload(chunks[n])) =
                  (IF L % ChunkSize = 0 THEN ChunkSize ELSE L % ChunkSize)
            /\ Concatenation([i \in 1..n |-> ChunkPayload(chunks[i])])
                  = PayloadBytes(SentFrame.payload)
            /\ last.source.kind = "chunk" => \E i \in 1..n : last.message = chunks[i]

\* The last, shorter chunk of a payload that chunkSize does not divide has
\* been received.
C15_Witness ==
    /\ last.source.kind = "chunk"
    /\ SentPayloadLength % ChunkSize # 0
    /\ Len(ChunkPayload(last.message)) = SentPayloadLength % ChunkSize

(***************************************************************************)
(* C16 (Spec).  A frame is chunked exactly when its total message size, 32 *)
(* header bytes plus 4 bytes per value, is strictly greater than           *)
(* maxMessageSize: at exactly the threshold it is one Standard message,    *)
(* one byte above the threshold it is Chunk messages and an EndOfFrame.    *)
(***************************************************************************)
IsStandardOnly(messages) ==
    Len(messages) = 1 /\ SubSeq(messages[1], 1, 4) = <<76, 73, 68, 82>>

IsChunked(messages) ==
    /\ Len(messages) >= 2
    /\ Len(ChunkMessagesOf(messages)) = Len(messages) - 1
    /\ Len(EndOfFrameMessagesOf(messages)) = 1

C16_ChunkingThreshold ==
    FromSender =>
        LET size == 32 + SentPayloadLength
        IN  /\ last.source.kind = "standard" <=> size <= MaxMessageSize
            /\ size <= MaxMessageSize => IsStandardOnly(SentMessages)
            /\ size > MaxMessageSize => IsChunked(SentMessages)
            /\ IsStandardOnly(EncodeFrame(SentFrame, size, ChunkSize))
            /\ IsChunked(EncodeFrame(SentFrame, size - 1, ChunkSize))

\* A frame of exactly maxMessageSize bytes arrived as one Standard message.
C16_Witness ==
    /\ last.source.kind = "standard"
    /\ 32 + SentPayloadLength = MaxMessageSize
    /\ last.message = SentMessages[1]

(***************************************************************************)
(* C17 (Spec).  A chunked frame goes out as Chunk messages with indices    *)
(* 0, 1, ..., N-1, each with the frame's stream type id, frame number and  *)
(* total chunk count N, and then exactly one EndOfFrame, the last message, *)
(* which carries the payload byte size, N and the original 32-byte         *)
(* Standard header, and no payload bytes.                                  *)
(***************************************************************************)
C17_ChunkSequenceThenEndOfFrame ==
    (FromSender /\ last.source.kind # "standard") =>
        LET messages == SentMessages
            n == Len(messages) - 1
            eofr == messages[n + 1]
        IN  /\ n >= 1
            /\ \A i \in 1..n :
                  /\ SubSeq(messages[i], 1, 4) = <<67, 72, 85, 78>>
                  /\ GetUint32(messages[i], 4) = SentFrame.streamTypeId
                  /\ GetUint32(messages[i], 8) = SentFrame.frameNumber
                  /\ GetUint32(messages[i], 12) = i - 1
                  /\ GetUint32(messages[i], 16) = n
            /\ SubSeq(eofr, 1, 4) = <<69, 79, 70, 82>>
            /\ GetUint32(eofr, 4) = SentFrame.streamTypeId
            /\ GetUint32(eofr, 8) = SentFrame.frameNumber
            /\ GetUint32(eofr, 12) = SentPayloadLength
            /\ GetUint32(eofr, 16) = n
            /\ Len(eofr) = 64
            /\ SubSeq(eofr, 33, 64) = SubSeq(EncodeStandard(SentFrame), 1, 32)
            /\ last.source.kind = "eof" => last.message = eofr

\* The EndOfFrame of a frame of three chunks arrived, after the chunks.
C17_Witness ==
    /\ last.source.kind = "eof"
    /\ Len(SentMessages) = 4
    /\ last.message = SentMessages[4]
    /\ last.preKeys = <<0, 1, 2>>

(***************************************************************************)
(* C18 (SpecDuplicates).  A Chunk message received a second time while the *)
(* frame is collecting leaves the buffers exactly as they were (same       *)
(* indices in the same order, same bytes, same recorded totalChunks), and  *)
(* the frame is still completed by its EndOfFrame with its own payload.    *)
(***************************************************************************)
C18_DuplicateChunkIdempotent ==
    /\ [][last'.source.kind = "duplicate" => chunkBuffers' = chunkBuffers]_vars
    /\ [](last.source.kind = "eof" =>
              /\ LastDelivered
              /\ last.delivered.data = last.source.frame.payload)

\* A frame of which a chunk had arrived twice was completed and delivered.
C18_Witness ==
    /\ last.source.kind = "eof"
    /\ last.source.duplicated
    /\ LastDelivered
    /\ Len(last.preKeys) = LastTotalChunks

(***************************************************************************)
(* C19 (Spec).  A decoded frame reports shape [shape0] when the header's   *)
(* Shape1 is 0 and [shape0, shape1] otherwise; either way its payload has  *)
(* shape0 * max(shape1, 1) values and its byte size is 4 times that count. *)
(***************************************************************************)
C19_ShapeOfDecodedFrame ==
    LastDelivered =>
        LET shape0 == GetUint32(last.parsed, 12)
            shape1 == GetUint32(last.parsed, 16)
            count == IF shape1 = 0 THEN shape0 ELSE shape0 * shape1
        IN  /\ shape1 = 0 => last.delivered.shape = <<shape0>>
            /\ shape1 # 0 => last.delivered.shape = <<shape0, shape1>>
            /\ Len(last.delivered.data) = count
            /\ last.delivered.dataSizeBytes = 4 * count

\* A one-dimensional frame was decoded from a Standard message.
C19_Witness ==
    /\ LastDelivered
    /\ last.source.kind = "standard"
    /\ GetUint32(last.parsed, 16) = 0
    /\ last.delivered.shape = <<1>>

(***************************************************************************)
(* C20 (Spec).  A message whose first four bytes are none of "LIDR",       *)
(* "CHUN" and "EOFR" is discarded: no frame is delivered for it, and the   *)
(* reassembly buffers and the per-stream counters are the same after it    *)
(* as before it.                                                           *)
(***************************************************************************)
KnownMagics == {MAGIC_BYTES_LIDR, MAGIC_BYTES_CHUN, MAGIC_BYTES_EOFR}

HasUnknownMagic(message) ==
    Len(message) >= Len(UNKNOWN_MAGIC) /\ Slice(message, 0, 4) \notin KnownMagics

C20_UnknownMagicDiscarded ==
    [][HasUnknownMagic(last'.message) =>
           /\ last'.delivered = NoFrame
           /\ last'.callback = NoCallback
           /\ chunkBuffers' = chunkBuffers
           /\ frameCounters' = frameCounters
           /\ dataReceived' = dataReceived]_vars

\* A message of unknown magic, long enough to be dispatched on its magic,
\* was handled while a chunk of an unfinished frame was buffered.
C20_Witness ==
    /\ HasUnknownMagic(last.message)
    /\ Len(last.message) >= HEADER_SIZE
    /\ last.source.kind = "stray"
    /\ chunkBuffers[last.stream] # EmptyMap
    /\ last.errors = <<>>

(***************************************************************************)
(* C21 (SpecEncoder).  Encoding a frame whose payload length differs from  *)
(* rows * max(cols, 1) fails with an error and emits no wire message: the  *)
(* payload is neither truncated nor padded and no Standard, Chunk or       *)
(* EndOfFrame message is produced for that frame.                          *)
(***************************************************************************)
DeclaredValues(frame) == frame.shape0 * (IF frame.shape1 > 1 THEN frame.shape1 ELSE 1)

C21_InconsistentPayloadNotEncoded ==
    (encoder # NotEncoded /\ Len(encoder.frame.payload) # DeclaredValues(encoder.frame)) =>
        /\ encoder.error # NoError
        /\ encoder.messages = <<>>

\* A payload longer than declared, which would have been chunked, was refused.
C21_Witness ==
    /\ encoder # NotEncoded
    /\ Len(encoder.frame.payload) > DeclaredValues(encoder.frame)
    /\ NeedsChunking(encoder.frame, MaxMessageSize)
    /\ encoder.error = PayloadShapeInconsistency

(***************************************************************************)
(* C22 (SpecApp).  The animation is paused while the browser tab is        *)
(* hidden: in every reachable state in which the document is hidden,       *)
(* isRunning is false and no animation frame is scheduled.                 *)
(***************************************************************************)
C22_PausedWhileHidden ==
    app.hidden => (~app.isRunning /\ app.scheduled = {} /\ app.animationId = NoAnimation)

(***************************************************************************)
(* C23 (SpecRepeat).  No frame is delivered for a chunked frame while only *)
(* its Chunk messages have arrived; delivery happens when its EndOfFrame   *)
(* is processed, with the frame number, shape, minVal and maxVal of the    *)
(* original Standard header carried in that EndOfFrame; and a second       *)
(* EndOfFrame for the same key, arriving after completion, delivers        *)
(* nothing: a chunked frame is delivered at most once per transmission.    *)
(***************************************************************************)
C23_DeliveredOnceAtEndOfFrame ==
    /\ last.source.kind = "chunk" => last.delivered = NoFrame
    /\ (last.source.kind \in {"eof", "eof-repeat"} /\ LastDelivered) =>
            /\ last.delivered.frameNumber = GetUint32(last.message, HEADER_SIZE + 8)
            /\ last.delivered.shape =
                    FrameShape(GetUint32(last.message, HEADER_SIZE + 12),
                               GetUint32(last.message, HEADER_SIZE + 16))
            /\ last.delivered.minVal = GetUint32(last.message, HEADER_SIZE + 20)
            /\ last.delivered.maxVal = GetUint32(last.message, HEADER_SIZE + 24)
    /\ (last.source.kind = "eof-repeat" /\ last.source.completed) =>
            last.delivered = NoFrame

(***************************************************************************)
(* C24 (Spec).  The payload of a delivered reassembled frame consists only *)
(* of chunks of the transmission whose EndOfFrame completed it: chunks     *)
(* left in the buffer by an earlier dropped or abandoned transmission of   *)
(* the same (stream, frameNumber) are never combined with chunks of a      *)
(* later transmission.                                                     *)
(***************************************************************************)
DeliveredBytes == PayloadBytes(last.delivered.data)

C24_ChunksOfOneTransmission ==
    (last.source.kind = "eof" /\ LastDelivered) =>
        LET sent == PayloadBytes(last.source.frame.payload)
        IN  /\ Len(DeliveredBytes) = Len(sent)
            /\ \A i \in 0..(NumChunks(Len(sent), ChunkSize) - 1) :
                    ChunkBytes(DeliveredBytes, i, ChunkSize) = ChunkBytes(sent, i, ChunkSize)

(***************************************************************************)
(* C25 (SpecArbitrary).  Whenever a frame is reassembled, the collected    *)
(* chunk indices are exactly 0..totalChunks-1, totalChunks being the value *)
(* recorded in the buffer at its creation: a chunk whose index is not      *)
(* below totalChunks, or an EndOfFrame whose totalChunks differs from the  *)
(* recorded one, never leads to a delivered frame.                         *)
(***************************************************************************)
C25_ReassembledFromAllIndices ==
    [][(last' # last /\ HasMagic(last'.message, MAGIC_BYTES_EOFR)
            /\ last'.delivered # NoFrame) =>
          LET bufs == chunkBuffers[last'.stream]
              f == FrameNumberOf(last'.message)
          IN  /\ f \in DOMAIN bufs
              /\ {last'.preKeys[k] : k \in 1..Len(last'.preKeys)}
                    = 0..(bufs[f].totalChunks - 1)
              /\ TotalChunksOf(last'.message) = bufs[f].totalChunks]_vars

(***************************************************************************)
(* C26 (Spec).  The frame count getStats reports for a stream is the       *)
(* number of frames decoded on that stream, Standard or reassembled, and   *)
(* the reported data volume is the sum of their payload byte sizes: both   *)
(* start at zero, a decoded frame adds 1 and its byte size, and nothing    *)
(* else (a Chunk message, a dropped frame, a rejected message, a           *)
(* connection event) changes either counter, so neither ever decreases.    *)
(***************************************************************************)
DecodedOn(s) == last' # last /\ last'.stream = s /\ last'.delivered # NoFrame

C26_StatsCountDecodedFrames ==
    /\ [](last = NoEvent =>
            \A s \in Streams : /\ getStats[s].frames = 0
                               /\ getStats[s].dataReceivedMB.numerator = 0)
    /\ [][\A s \in Streams :
            /\ getStats'[s].frames =
                    getStats[s].frames + (IF DecodedOn(s) THEN 1 ELSE 0)
            /\ getStats'[s].dataReceivedMB.numerator =
                    getStats[s].dataReceivedMB.numerator
                        + (IF DecodedOn(s)
                           THEN FLOAT32_BYTES * Len(last'.delivered.data) ELSE 0)
            /\ getStats'[s].dataReceivedMB.denominator = 1024 * 1024]_vars

\* A Standard frame and a reassembled frame have been decoded on one stream.
C26_Witness ==
    /\ last.source.kind = "eof"
    /\ LastDelivered
    /\ getStats[last.stream].frames = 2
    /\ getStats[last.stream].dataReceivedMB.numerator
            > FLOAT32_BYTES * Len(last.delivered.data)

(***************************************************************************)
(* C27 (SpecConnections).  isConnected(stream) is true exactly when the    *)
(* most recently opened WebSocket of that stream is open: the close event  *)
(* of an older socket never removes the registration of a newer socket of  *)
(* the stream that is still open.                                          *)
(***************************************************************************)
LastOpenedIsOpen(s) ==
    history.lastOpened[s] # 0 /\ socks[s][history.lastOpened[s]] = "OPEN"

C27_ConnectedIffLastOpenedIsOpen ==
    \A s \in Streams : isConnected(s) <=> LastOpenedIsOpen(s)

(***************************************************************************)
(* C28 (SpecConnections).  After disconnectAll() has returned, every       *)
(* stream is reported as disconnected by isConnected and by                *)
(* getConnectionStatus, and stays so until connectToStream is called       *)
(* again, also for connection attempts that were in progress when          *)
(* disconnectAll was called.                                               *)
(***************************************************************************)
C28_DisconnectedAfterDisconnectAll ==
    history.disconnectedAll =>
        \A s \in Streams : ~isConnected(s) /\ getConnectionStatus[s] = FALSE

(***************************************************************************)
(* C29 (SpecConnections).  The onConnect and onDisconnect callbacks are    *)
(* paired per socket: onDisconnect(stream) is invoked at most once per     *)
(* socket and only for a socket for which onConnect(stream) was invoked    *)
(* earlier, also when a connection attempt fails before it opens.          *)
(***************************************************************************)
C29_DisconnectOnlyAfterConnect ==
    \A s \in Streams : \A i \in 1..Len(history.callbacks[s]) :
        /\ history.callbacks[s][i].onDisconnect <= 1
        /\ history.callbacks[s][i].onDisconnect <= history.callbacks[s][i].onConnect

(***************************************************************************)
(* C30 (SpecZone).  After any sequence of addVertex, setXzVertices,        *)
(* setLastVertexPosition and reset, addVertex adds exactly one vertex and  *)
(* returns true when the zone holds fewer than MAX_ZONE_VERTICES vertices, *)
(* and returns false and leaves the zone unchanged when the zone holds     *)
(* MAX_ZONE_VERTICES vertices or more.                                     *)
(***************************************************************************)
C30_AddVertexRespectsMaximum ==
    zone.lastCall.op = "addVertex" =>
        LET before == zone.lastCall.before
        IN  IF Len(before) < MAX_ZONE_VERTICES
            THEN /\ zone.lastCall.returned
                 /\ Len(zone.xzVertices) = Len(before) + 1
                 /\ SubSeq(zone.xzVertices, 1, Len(before)) = before
            ELSE /\ ~zone.lastCall.returned
                 /\ zone.xzVertices = before

====
